---- MODULE Spec2Model ----
(***************************************************************************)
(* ICMP tunnel of BENZJ/icmp_proxy: the initiator (client/main.go), its    *)
(* listener, the responder (server/main.go) and the two raw sockets that   *)
(* join them.                                                              *)
(*                                                                         *)
(* A byte string is a sequence of runs [src, n, lo, hi]: the bytes         *)
(* lo..hi-1 of the buffer (src, n), the way a Go slice is a view           *)
(* (array, offset, length) of its backing array.  ("resp", s) is the HTTP  *)
(* response the responder obtained for the request of session s, and       *)
(* ("req", s) is the dumped HTTP request of session s.  Two byte strings   *)
(* are equal when they hold the same bytes of the same buffers in the same *)
(* order; adjacent runs are always merged, so equality of the sequences of *)
(* runs is equality of the byte strings.                                   *)
(***************************************************************************)
EXTENDS Integers, Sequences, FiniteSets, Bags, TLC

\* ---------------------------------------------------------------- bounds
MaxId == 1              \* request ids are drawn from 0..MaxId
MaxChunks == 2          \* the longest response is MaxChunks full chunks and a byte
ReqLen == 29            \* length of the dumped HTTP request
MaxStray == 1           \* packets from elsewhere that reach the initiator's socket
StrayLen == 5           \* payload length of such a packet
MaxPayload == 3         \* the codec alone: longest payload, in bytes

\* ------------------------------------------------------- program constants
MaxChunkSize == 1400
ChanCap == 100
TwoTo16 == 65536
TypeEcho == 8
TypeEchoReply == 0
HeaderLen == 8
TypeUnreachable == 3
MagicID == 4919

\* two calls of handleHTTPProxyRequest, numbered in the order they register
Sessions == {1, 2}
Ids == 0..MaxId
None == 0

\* lengths of the response the HTTP executor may hand back.  To the responder
\* taken alone: every whole number of chunks up to MaxChunks, and one byte more
\* than each.  In the whole system, where two sessions and every order of
\* delivery are searched: empty, one chunk, and one chunk and a byte.
RespLens ==
    {k * MaxChunkSize : k \in 0..MaxChunks} \cup
    {k * MaxChunkSize + 1 : k \in 0..MaxChunks}
SysLens == {0, MaxChunkSize, MaxChunkSize + 1}

\* ------------------------------------------------------------ byte strings
Run(src, n, lo, hi) == [src |-> src, n |-> n, lo |-> lo, hi |-> hi]

Buffer(src, n, len) == IF len = 0 THEN << >> ELSE << Run(src, n, 0, len) >>

RECURSIVE ByteLen(_)
ByteLen(b) == IF b = << >> THEN 0 ELSE (Head(b).hi - Head(b).lo) + ByteLen(Tail(b))

\* a ++ b, merging the runs that meet when they are adjacent in one buffer
Cat(a, b) ==
    IF a = << >> THEN b
    ELSE IF b = << >> THEN a
    ELSE LET x == a[Len(a)]
             y == b[1]
         IN  IF x.src = y.src /\ x.n = y.n /\ x.hi = y.lo
             THEN SubSeq(a, 1, Len(a) - 1) \o << Run(x.src, x.n, x.lo, y.hi) >> \o Tail(b)
             ELSE a \o b

RECURSIVE DropBytes(_, _)
DropBytes(b, k) ==
    IF k = 0 \/ b = << >> THEN b
    ELSE LET r == Head(b)
             l == r.hi - r.lo
         IN  IF k >= l THEN DropBytes(Tail(b), k - l)
             ELSE << Run(r.src, r.n, r.lo + k, r.hi) >> \o Tail(b)

RECURSIVE TakeBytes(_, _)
TakeBytes(b, k) ==
    IF k = 0 \/ b = << >> THEN << >>
    ELSE LET r == Head(b)
             l == r.hi - r.lo
         IN  IF k >= l THEN << r >> \o TakeBytes(Tail(b), k - l)
             ELSE << Run(r.src, r.n, r.lo, r.lo + k) >>

\* data[i:end]
Slice(data, i, end) == TakeBytes(DropBytes(data, i), end - i)

\* bytes.Join(chunks, nil)
RECURSIVE Join(_)
Join(chunks) == IF chunks = << >> THEN << >> ELSE Cat(Head(chunks), Join(Tail(chunks)))

\* --------------------------------------------------------------- the codec
Echo(id, seq, data) == [ID |-> id, Seq |-> seq, Data |-> data]

\* Message.Marshal with an Echo body: one byte of type, and the identifier and
\* the sequence cut to 16 bits; the encoding is 8 + len(Data) bytes long
Marshal(type, echo) ==
    [Type |-> type % 256,
     ID   |-> echo.ID % TwoTo16,
     Seq  |-> echo.Seq % TwoTo16,
     Data |-> echo.Data]

WireLen(w) == HeaderLen + ByteLen(w.Data)

\* ParseMessage: the Echo of an encoding of at least 8 bytes
ParseOk(w) == WireLen(w) >= HeaderLen
ParseMessage(w) == [Type |-> w.Type, Body |-> Echo(w.ID, w.Seq, w.Data)]

VARIABLES
    pc,               \* per session: "idle", "reg", "wait", "done"
    sid,              \* per session: its requestID
    inbox,            \* per session: the channel ch made by sendICMPRequest
    respChannels,     \* id -> session whose channel is registered, or None
    responsePackets,  \* per session: the data fragments appended so far
    result,           \* per session: what sendICMPRequest returned
    got,              \* per session: the echoes it has taken from ch
    lpc, lpkt, lch,   \* listenForICMPResponses: position, reply in hand, its channel
    c2s, s2c,         \* packets in flight to the responder and to the initiator
    hpc,              \* per request: position of its responder goroutine
    hreq,             \* per request: the echo handed to handleHttpRequest
    hdata,            \* per request: respBytes
    written,          \* per request: the packets its handler wrote, in order
    injected,         \* packets that reached the initiator's socket from elsewhere
    message,          \* the codec alone: the Message to encode
    wire,             \* the codec alone: the bytes Message.Marshal returned
    readErr           \* the err of the latest ReadFrom of the listener, of the responder

vars == << pc, sid, inbox, respChannels, responsePackets, result, got,
           lpc, lpkt, lch, c2s, s2c, hpc, hreq, hdata, written,
           injected, message, wire, readErr >>

clientVars == << pc, sid, inbox, respChannels, responsePackets, result, got >>
listenVars == << lpc, lpkt, lch >>
serverVars == << hpc, hreq, hdata, written >>
codecVars == << message, wire >>

NoResult == [kind |-> "none", data |-> << >>]
NoEcho == Echo(0, 0, << >>)
NoMessage == [Type |-> 0, Code |-> 0, Body |-> NoEcho]

Init ==
    /\ pc = [s \in Sessions |-> "idle"]
    /\ sid = [s \in Sessions |-> 0]
    /\ inbox = [s \in Sessions |-> << >>]
    /\ respChannels = [i \in Ids |-> None]
    /\ responsePackets = [s \in Sessions |-> << >>]
    /\ result = [s \in Sessions |-> NoResult]
    /\ got = [s \in Sessions |-> {}]
    /\ lpc = "read"
    /\ lpkt = NoEcho
    /\ lch = None
    /\ c2s = EmptyBag
    /\ s2c = EmptyBag
    /\ hpc = [s \in Sessions |-> "none"]
    /\ hreq = [s \in Sessions |-> NoEcho]
    /\ hdata = [s \in Sessions |-> << >>]
    /\ written = [s \in Sessions |-> << >>]
    /\ injected = 0
    /\ message = NoMessage
    /\ wire = << >>
    /\ readErr = [listener |-> "nil", server |-> "nil"]

\* ------------------------------------------------------------ responseMap
MapSet(m, id, ch) == [m EXCEPT ![id] = ch]
\* a return that leaves the entry behind
MapDeleteNothing(m, id) == m

MapDelete(m, id) == [m EXCEPT ![id] = None]

\* a lookup that finds a channel under every identifier
MapGetAlways(m, id) == IF m[id] = None THEN 1 ELSE m[id]

MapGet(m, id) == m[id]


\* ------------------------------------------------- initiator (client/main.go)
RequestBytes(s) == Buffer("req", s, ReqLen)

\* a loop that skips nothing
IsIgnoredNever(packet) == FALSE

\* the fragments the reassembly loop skips
IsIgnored(packet) == packet.Seq = 0

\* a loop that takes any fragment shorter than a chunk for the last one
IsFinalShort(packet) == ByteLen(packet.Data) < MaxChunkSize

\* the fragment that ends the response
IsFinal(packet) == ByteLen(packet.Data) = 0

\* the packets left in the order they arrived
ArrivalOrder(pkts, idx) == { pkts }

\* the orders sort.Slice may leave the packets in: ascending Seq, packets of
\* equal Seq in any order (sort.Slice is not stable)
RECURSIVE SortedBySeq(_, _)
SortedBySeq(pkts, idx) ==
    IF idx = {} THEN { << >> }
    ELSE LET least == {i \in idx : \A j \in idx : pkts[i].Seq <= pkts[j].Seq}
         IN  UNION { { << pkts[i] >> \o rest : rest \in SortedBySeq(pkts, idx \ {i}) }
                     : i \in least }

DataOf(pkts) == [k \in 1..Len(pkts) |-> pkts[k].Data]

Ok(data) == [kind |-> "ok", data |-> data]
TimeoutErr == [kind |-> "timeout", data |-> << >>]
WriteErr == [kind |-> "werr", data |-> << >>]

\* handleHTTPProxyRequest draws requestID from the clock; sendICMPRequest makes
\* the channel and registers it
Register(s, id) ==
    /\ pc[s] = "idle"
    /\ \A t \in Sessions : t < s => pc[t] # "idle"
    /\ pc' = [pc EXCEPT ![s] = "reg"]
    /\ sid' = [sid EXCEPT ![s] = id]
    /\ respChannels' = MapSet(respChannels, id, s)
    /\ UNCHANGED << inbox, responsePackets, result, got >>
    /\ UNCHANGED << listenVars, c2s, s2c, serverVars, injected, codecVars, readErr >>

\* the Echo Request is marshalled and written; the timer starts
SendEcho(s) ==
    /\ pc[s] = "reg"
    /\ c2s' = c2s (+) SetToBag({Marshal(TypeEcho, Echo(sid[s], 0, RequestBytes(s)))})
    /\ pc' = [pc EXCEPT ![s] = "wait"]
    /\ UNCHANGED << sid, inbox, respChannels, responsePackets, result, got >>
    /\ UNCHANGED << listenVars, s2c, serverVars, injected, codecVars, readErr >>

\* icmpConn.WriteTo fails: the error is returned and the deferred Delete runs
SendEchoFail(s) ==
    /\ pc[s] = "reg"
    /\ pc' = [pc EXCEPT ![s] = "done"]
    /\ result' = [result EXCEPT ![s] = WriteErr]
    /\ respChannels' = MapDelete(respChannels, sid[s])
    /\ UNCHANGED << sid, inbox, responsePackets, got >>
    /\ UNCHANGED << listenVars, c2s, s2c, serverVars, injected, codecVars, readErr >>

\* case packet := <-ch
Receive(s) ==
    /\ pc[s] = "wait"
    /\ inbox[s] # << >>
    /\ LET packet == Head(inbox[s]) IN
       /\ inbox' = [inbox EXCEPT ![s] = Tail(@)]
       /\ got' = [got EXCEPT ![s] = @ \cup {packet}]
       /\ IF IsIgnored(packet)
          THEN UNCHANGED << pc, respChannels, responsePackets, result >>
          ELSE IF IsFinal(packet)
          THEN /\ \E sorted \in SortedBySeq(responsePackets[s],
                                            1..Len(responsePackets[s])) :
                     /\ responsePackets' = [responsePackets EXCEPT ![s] = sorted]
                     /\ result' = [result EXCEPT ![s] = Ok(Join(DataOf(sorted)))]
               /\ pc' = [pc EXCEPT ![s] = "done"]
               /\ respChannels' = MapDelete(respChannels, sid[s])
          ELSE /\ responsePackets' = [responsePackets EXCEPT ![s] = Append(@, packet)]
               /\ UNCHANGED << pc, respChannels, result >>
    /\ UNCHANGED sid
    /\ UNCHANGED << listenVars, c2s, s2c, serverVars, injected, codecVars, readErr >>

\* a select that takes the timer's case only when the channel is empty
TimeoutWhenIdle(s) ==
    /\ pc[s] = "wait"
    /\ inbox[s] = << >>
    /\ pc' = [pc EXCEPT ![s] = "done"]
    /\ result' = [result EXCEPT ![s] = TimeoutErr]
    /\ respChannels' = MapDelete(respChannels, sid[s])
    /\ UNCHANGED << sid, inbox, responsePackets, got >>
    /\ UNCHANGED << listenVars, c2s, s2c, serverVars, injected, codecVars, readErr >>

\* case <-timeout: the 30 s of time.After have passed
TimeoutReturn(s) ==
    /\ pc[s] = "wait"
    /\ pc' = [pc EXCEPT ![s] = "done"]
    /\ result' = [result EXCEPT ![s] = TimeoutErr]
    /\ respChannels' = MapDelete(respChannels, sid[s])
    /\ UNCHANGED << sid, inbox, responsePackets, got >>
    /\ UNCHANGED << listenVars, c2s, s2c, serverVars, injected, codecVars, readErr >>

\* ------------------------------------------- listenForICMPResponses
\* a listener that takes a message of any type
AcceptedAny(msg) == TRUE

Accepted(msg) == msg.Type = TypeEchoReply

\* one turn of the loop up to the send: read, parse, test the type, look the
\* channel up; a packet that fails any of these is dropped
ListenRead(w) ==
    /\ lpc = "read"
    /\ BagIn(w, s2c)
    /\ s2c' = s2c (-) SetToBag({w})
    /\ IF ParseOk(w) /\ Accepted(ParseMessage(w))
           /\ MapGet(respChannels, ParseMessage(w).Body.ID) # None
       THEN /\ lpc' = "send"
            /\ lpkt' = ParseMessage(w).Body
            /\ lch' = MapGet(respChannels, ParseMessage(w).Body.ID)
       ELSE UNCHANGED listenVars
    /\ readErr' = [readErr EXCEPT !.listener = "nil"]
    /\ UNCHANGED << clientVars, c2s, serverVars, injected, codecVars >>

\* ch <- reply: a send on a buffered channel, which waits while the buffer is full
ListenSend ==
    /\ lpc = "send"
    /\ Len(inbox[lch]) < ChanCap
    /\ inbox' = [inbox EXCEPT ![lch] = Append(@, lpkt)]
    /\ lpc' = "read"
    /\ lpkt' = NoEcho
    /\ lch' = None
    /\ UNCHANGED << pc, sid, respChannels, responsePackets, result, got >>
    /\ UNCHANGED << c2s, s2c, serverVars, injected, codecVars, readErr >>


\* ------------------------------------------------- responder (server/main.go)
\* the session whose request the echo carries
RequestOf(echo) == echo.Data[1].n

\* main: read, parse, and start handleHttpRequest for an Echo Request
ServerRecv ==
    \E w \in BagToSet(c2s) :
      /\ c2s' = c2s (-) SetToBag({w})
      /\ IF ParseOk(w) /\ ParseMessage(w).Type = TypeEcho
         THEN LET echo == ParseMessage(w).Body
                  h == RequestOf(echo)
              IN  /\ hpc' = [hpc EXCEPT ![h] = "exec"]
                  /\ hreq' = [hreq EXCEPT ![h] = echo]
                  /\ UNCHANGED << hdata, written >>
         ELSE UNCHANGED serverVars
      /\ readErr' = [readErr EXCEPT !.server = "nil"]
      /\ UNCHANGED << clientVars, listenVars, s2c, injected, codecVars >>

\* a chunk of one byte
ChunkEndShort(i, totalLen) == IF i + 1 > totalLen THEN totalLen ELSE i + 1

\* end of the chunk that starts at i
ChunkEnd(i, totalLen) == IF i + MaxChunkSize > totalLen THEN totalLen ELSE i + MaxChunkSize

\* Seq of the first data chunk
FirstSeq == 0

\* a data fragment that does not carry the loop's seq
ChunkEchoSeqZero(requestID, seq, data, i) ==
    Echo(requestID, 0, Slice(data, i, ChunkEnd(i, ByteLen(data))))

\* the data fragment the loop body builds
ChunkEcho(requestID, seq, data, i) ==
    Echo(requestID, seq, Slice(data, i, ChunkEnd(i, ByteLen(data))))

\* the packets the loop of sendResponseInChunks writes from (seq, i) on
RECURSIVE ChunkLoop(_, _, _, _)
ChunkLoop(requestID, data, seq, i) ==
    IF i < ByteLen(data)
    THEN << Marshal(TypeEchoReply, ChunkEcho(requestID, seq, data, i)) >>
         \o ChunkLoop(requestID, data, seq + 1, i + MaxChunkSize)
    ELSE << >>

\* a final packet numbered without the step past the last chunk
FinalSeqNoStep(data) == ByteLen(data) \div MaxChunkSize

\* Seq of the final, zero-length packet
FinalSeq(data) == (ByteLen(data) \div MaxChunkSize) + 1

FinalEcho(requestID, data) == Echo(requestID, FinalSeq(data), << >>)

\* every packet sendResponseInChunks writes when no write fails, in order
SendResponseInChunks(requestID, data) ==
    ChunkLoop(requestID, data, FirstSeq, 0)
    \o << Marshal(TypeEchoReply, FinalEcho(requestID, data)) >>

RECURSIVE SeqToBag(_)
SeqToBag(q) == IF q = << >> THEN EmptyBag ELSE SetToBag({Head(q)}) (+) SeqToBag(Tail(q))

\* a sendResponseInChunks that goes on after a write that failed: packet
\* n + 1 is lost and every other one is written
HandleHttpRequestGoOn(h, len, n) ==
    /\ hpc[h] = "exec"
    /\ LET data == Buffer("resp", h, len)
           all == SendResponseInChunks(hreq[h].ID, data)
           rest == SubSeq(all, 1, n) \o SubSeq(all, n + 2, Len(all))
       IN  /\ n \in 0..Len(all)
           /\ hdata' = [hdata EXCEPT ![h] = data]
           /\ written' = [written EXCEPT ![h] = rest]
           /\ s2c' = s2c (+) SeqToBag(rest)
           /\ hpc' = [hpc EXCEPT ![h] = IF n = Len(all) THEN "done" ELSE "werr"]
    /\ UNCHANGED hreq
    /\ UNCHANGED << clientVars, listenVars, c2s, injected, codecVars, readErr >>

\* handleHttpRequest: the request is parsed and executed, the response of len
\* bytes is dumped into respBytes and sendResponseInChunks writes it; the
\* first n writes succeed, and when n is not all of them the next one fails
\* and sendResponseInChunks returns there
HandleHttpRequest(h, len, n) ==
    /\ hpc[h] = "exec"
    /\ LET data == Buffer("resp", h, len)
           all == SendResponseInChunks(hreq[h].ID, data)
       IN  /\ n \in 0..Len(all)
           /\ hdata' = [hdata EXCEPT ![h] = data]
           /\ written' = [written EXCEPT ![h] = SubSeq(all, 1, n)]
           /\ s2c' = s2c (+) SeqToBag(SubSeq(all, 1, n))
           /\ hpc' = [hpc EXCEPT ![h] = IF n = Len(all) THEN "done" ELSE "werr"]
    /\ UNCHANGED hreq
    /\ UNCHANGED << clientVars, listenVars, c2s, injected, codecVars, readErr >>

\* handleHttpRequest returns on a failure of ReadRequest, Do or DumpResponse
HttpFail(h) ==
    /\ hpc[h] = "exec"
    /\ hpc' = [hpc EXCEPT ![h] = "abandoned"]
    /\ UNCHANGED << hreq, hdata, written >>
    /\ UNCHANGED << clientVars, listenVars, c2s, s2c, injected, codecVars, readErr >>

\* number of packets the whole response of len bytes takes
Writes(len) == Len(SendResponseInChunks(0, Buffer("resp", 0, len)))

\* ------------------------------------------------------- the whole system
\* Two sessions, the listener, the responder and a network that delivers in
\* any order; no write of the responder fails (to the initiator a failed write
\* is a fragment that never arrives).
Next ==
    \/ \E s \in Sessions, id \in Ids : Register(s, id)
    \/ \E s \in Sessions : SendEcho(s)
    \/ \E s \in Sessions : SendEchoFail(s)
    \/ \E s \in Sessions : Receive(s)
    \/ \E s \in Sessions : TimeoutReturn(s)
    \/ \E w \in BagToSet(s2c) : ListenRead(w)
    \/ ListenSend
    \/ ServerRecv
    \/ \E h \in Sessions, len \in SysLens : HandleHttpRequest(h, len, Writes(len))
    \/ \E h \in Sessions : HttpFail(h)

Spec == Init /\ [][Next]_vars


\* ------------------------------------------------------ the responder alone
\* Requests arrive from the initiator; any write of a handler may fail.
NextResponder ==
    \/ \E s \in Sessions, id \in Ids : Register(s, id)
    \/ \E s \in Sessions : SendEcho(s)
    \/ ServerRecv
    \/ \E h \in Sessions, len \in RespLens :
         \E n \in 0..Writes(len) : HandleHttpRequest(h, len, n)
    \/ \E h \in Sessions : HttpFail(h)

SpecResponder == Init /\ [][NextResponder]_vars

\* ------------------------------------------------- one long response
\* the packets in flight to the initiator that no packet of the same
\* identifier and a smaller Seq precedes: what a network that keeps the order
\* of each response delivers next
InOrder == {w \in BagToSet(s2c) : \A v \in BagToSet(s2c) : v.ID = w.ID => w.Seq <= v.Seq}

\* a response of one chunk more than the channel holds
BulkLen == (ChanCap + 1) * MaxChunkSize

\* One session, a response of BulkLen bytes, and a network that keeps the order.
NextBulk ==
    \/ \E id \in Ids : Register(1, id)
    \/ \E s \in Sessions : SendEcho(s)
    \/ \E s \in Sessions : Receive(s)
    \/ \E s \in Sessions : TimeoutReturn(s)
    \/ \E w \in InOrder : ListenRead(w)
    \/ ListenSend
    \/ ServerRecv
    \/ \E h \in Sessions : HandleHttpRequest(h, BulkLen, Writes(BulkLen))

SpecBulk == Init /\ [][NextBulk]_vars

\* ------------------------------------- the client test (client/main_test.go)
\* lengths of the response the simulated responder dumps
TestLens == {2, 19, 101}

\* sendChunk
SendChunk(id, seq, data) == Marshal(TypeEchoReply, Echo(id, seq, data))

\* simulateRequestAndResponse: read the request, build a response of len bytes
\* and send it back as two halves and an empty packet, Seq 0, 1 and 2
SimulateRequestAndResponse(len) ==
    \E w \in BagToSet(c2s) :
      /\ c2s' = c2s (-) SetToBag({w})
      /\ ParseOk(w)
      /\ LET reqEcho == ParseMessage(w).Body
             h == RequestOf(reqEcho)
             respBytes == Buffer("resp", h, len)
             chunk1 == Slice(respBytes, 0, len \div 2)
             chunk2 == Slice(respBytes, len \div 2, len)
             sent == << SendChunk(reqEcho.ID, 0, chunk1),
                        SendChunk(reqEcho.ID, 1, chunk2),
                        SendChunk(reqEcho.ID, 2, << >>) >>
         IN  /\ hreq' = [hreq EXCEPT ![h] = reqEcho]
             /\ hdata' = [hdata EXCEPT ![h] = respBytes]
             /\ written' = [written EXCEPT ![h] = sent]
             /\ hpc' = [hpc EXCEPT ![h] = "done"]
             /\ s2c' = s2c (+) SeqToBag(sent)
      /\ UNCHANGED << clientVars, listenVars, injected, codecVars, readErr >>

\* TestClientProxyWorkflow: one request through handleHTTPProxyRequest, the
\* listener, and the simulated responder at the far end of the mock pair,
\* whose channels keep the order
NextTest ==
    \/ \E id \in Ids : Register(1, id)
    \/ \E s \in Sessions : SendEcho(s)
    \/ \E s \in Sessions : Receive(s)
    \/ \E s \in Sessions : TimeoutReturn(s)
    \/ \E w \in InOrder : ListenRead(w)
    \/ ListenSend
    \/ \E len \in TestLens : SimulateRequestAndResponse(len)

SpecTest == Init /\ [][NextTest]_vars

\* --------------------------------- the initiator's socket with other traffic
\* icmpConn is a raw socket listening on 0.0.0.0 for "ip4:icmp": it is handed
\* every ICMP packet that reaches the host, whoever sent it.
\* the packets that may come from elsewhere, under any identifier: an empty
\* Echo Reply of Seq 0, an Echo Reply of Seq 1 with a payload, and an Echo
\* Request with a payload; the k-th packet carries bytes of its own
StrayPackets(k) ==
    UNION { { Marshal(TypeEchoReply, Echo(i, 0, << >>)),
              Marshal(TypeEchoReply, Echo(i, 1, Buffer("stray", k, StrayLen))),
              Marshal(TypeEcho, Echo(i, 1, Buffer("stray", k, StrayLen))) }
            : i \in Ids }

\* a packet from elsewhere reaches the socket
StrayPacket(w) ==
    /\ injected < MaxStray
    /\ injected' = injected + 1
    /\ s2c' = s2c (+) SetToBag({w})
    /\ UNCHANGED << clientVars, listenVars, c2s, serverVars, codecVars, readErr >>

\* the kernel of the responder's host answers the Echo Request itself: an Echo
\* Reply with the identifier, the Seq (0) and the payload of the request
KernelReply(s) ==
    /\ pc[s] \in {"wait", "done"}
    /\ result[s] # WriteErr
    /\ injected < MaxStray
    /\ injected' = injected + 1
    /\ s2c' = s2c (+) SetToBag({Marshal(TypeEchoReply, Echo(sid[s], 0, RequestBytes(s)))})
    /\ UNCHANGED << clientVars, listenVars, c2s, serverVars, codecVars, readErr >>

\* lengths of the response here: empty, and two chunks and a byte
NoiseLens == {0, 2 * MaxChunkSize + 1}

\* One session, a response of a length of NoiseLens, a network that delivers
\* in any order, and up to MaxStray packets that are not the responder's.
NextNoise ==
    \/ \E id \in Ids : Register(1, id)
    \/ \E s \in Sessions : SendEcho(s)
    \/ \E s \in Sessions : SendEchoFail(s)
    \/ \E s \in Sessions : Receive(s)
    \/ \E s \in Sessions : TimeoutReturn(s)
    \/ \E w \in BagToSet(s2c) : ListenRead(w)
    \/ ListenSend
    \/ ServerRecv
    \/ \E h \in Sessions, len \in NoiseLens : HandleHttpRequest(h, len, Writes(len))
    \/ \E s \in Sessions : KernelReply(s)
    \/ \E w \in StrayPackets(injected + 1) : StrayPacket(w)

SpecNoise == Init /\ [][NextNoise]_vars


\* ----------------------------------------- packets of the wrong kind, errors
\* the types of a packet that is not an Echo Reply: an Echo Request (with
\* ServerAddr the loopback address the initiator's socket is handed its own),
\* and a type the codec has no name for
WrongKinds == {TypeEcho, TypeUnreachable}

\* a packet of type t reaches the initiator's socket under the identifier of
\* a session that is waiting; ParseMessage reads any type as an Echo
WrongKind(s, t) ==
    /\ pc[s] = "wait"
    /\ injected < MaxStray
    /\ injected' = injected + 1
    /\ s2c' = s2c (+) SetToBag({Marshal(t,
                 Echo(sid[s], 1, Buffer("stray", injected + 1, StrayLen)))})
    /\ UNCHANGED << clientVars, listenVars, c2s, serverVars, codecVars, readErr >>

\* the other main of the responder: an Echo Request is handed to handlePacket
\* when its identifier is MagicID, and dropped when it is not
ServerRecvMagic ==
    \E w \in BagToSet(c2s) :
      /\ c2s' = c2s (-) SetToBag({w})
      /\ IF ParseOk(w) /\ ParseMessage(w).Type = TypeEcho
             /\ ParseMessage(w).Body.ID = MagicID
         THEN LET echo == ParseMessage(w).Body
                  h == RequestOf(echo)
              IN  /\ hpc' = [hpc EXCEPT ![h] = "packet"]
                  /\ hreq' = [hreq EXCEPT ![h] = echo]
                  /\ UNCHANGED << hdata, written >>
         ELSE UNCHANGED serverVars
      /\ readErr' = [readErr EXCEPT !.server = "nil"]
      /\ UNCHANGED << clientVars, listenVars, s2c, injected, codecVars >>

\* what reaches the responder's socket and is not an Echo Request: its own
\* replies (ServerAddr is the loopback address), and a packet of another type
\* that carries what a request carries
ServerStrays ==
    {w \in BagToSet(s2c) : w.Type = TypeEchoReply} \cup
    {Marshal(TypeUnreachable, Echo(i, 0, RequestBytes(1))) : i \in Ids}

StrayToServer(w) ==
    /\ ~BagIn(w, c2s)
    /\ c2s' = c2s (+) SetToBag({w})
    /\ UNCHANGED << clientVars, listenVars, s2c, serverVars, injected, codecVars, readErr >>

\* what ReadFrom can fail with: an error that is Temporary(), and the error
\* of a closed socket, which is not
ReadErrs == {"temporary", "closed"}

\* listenForICMPResponses, ReadFrom fails: break when the error is a net.Error
\* that is not temporary, continue otherwise
ListenReadErr(e) ==
    /\ lpc = "read"
    /\ readErr' = [readErr EXCEPT !.listener = e]
    /\ lpc' = IF e = "closed" THEN "stopped" ELSE "read"
    /\ UNCHANGED << lpkt, lch >>
    /\ UNCHANGED << clientVars, c2s, s2c, serverVars, injected, codecVars >>

\* main of the responder, ReadFrom fails: log and continue, whatever the error
ServerReadErr(e) ==
    /\ readErr' = [readErr EXCEPT !.server = e]
    /\ UNCHANGED << clientVars, listenVars, c2s, s2c, serverVars, injected, codecVars >>

\* One session, the listener and the responder, with packets of the wrong
\* kind.
NextFaults ==
    \/ \E id \in Ids : Register(1, id)
    \/ \E s \in Sessions : SendEcho(s)
    \/ \E s \in Sessions : Receive(s)
    \/ \E s \in Sessions : TimeoutReturn(s)
    \/ \E w \in BagToSet(s2c) : ListenRead(w)
    \/ ListenSend
    \/ ServerRecv
    \/ \E h \in Sessions, len \in SysLens : HandleHttpRequest(h, len, Writes(len))
    \/ \E h \in Sessions : HttpFail(h)
    \/ \E s \in Sessions, t \in WrongKinds : WrongKind(s, t)
    \/ ServerRecvMagic
    \/ \E w \in ServerStrays : StrayToServer(w)

SpecFaults == Init /\ [][NextFaults]_vars

\* One session, the listener and the responder, with reads that fail.
NextReadErr ==
    \/ \E id \in Ids : Register(1, id)
    \/ \E s \in Sessions : SendEcho(s)
    \/ \E s \in Sessions : Receive(s)
    \/ \E s \in Sessions : TimeoutReturn(s)
    \/ \E w \in BagToSet(s2c) : ListenRead(w)
    \/ ListenSend
    \/ ServerRecv
    \/ \E h \in Sessions, len \in SysLens : HandleHttpRequest(h, len, Writes(len))
    \/ \E h \in Sessions : HttpFail(h)
    \/ \E e \in ReadErrs : ListenReadErr(e)
    \/ \E e \in ReadErrs : ServerReadErr(e)

SpecReadErr == Init /\ [][NextReadErr]_vars

\* ------------------------------------------------- the calls that return
\* Echo Replies of Seq 0 under the identifier of a session, as many as the
\* network cares to deliver: the listener passes each to the session's channel
\* and the session skips it
PingFlood(s) ==
    /\ pc[s] # "idle"
    /\ LET w == Marshal(TypeEchoReply, Echo(sid[s], 0, << >>))
       IN  /\ ~BagIn(w, s2c)
           /\ s2c' = s2c (+) SetToBag({w})
    /\ UNCHANGED << clientVars, listenVars, c2s, serverVars, injected, codecVars, readErr >>

\* One session and the listener, the responder answering with an empty
\* response or not at all, and Echo Replies of Seq 0 without end.
NextLive ==
    \/ \E id \in Ids : Register(1, id)
    \/ \E s \in Sessions : SendEcho(s)
    \/ \E s \in Sessions : SendEchoFail(s)
    \/ \E s \in Sessions : Receive(s)
    \/ \E s \in Sessions : TimeoutReturn(s)
    \/ \E w \in BagToSet(s2c) : ListenRead(w)
    \/ ListenSend
    \/ ServerRecv
    \/ \E h \in Sessions : HandleHttpRequest(h, 0, Writes(0))
    \/ \E s \in Sessions : PingFlood(s)

\* WriteTo returns, with or without an error; and once the timer has fired its
\* case of the select stays ready, and a select with several ready cases picks
\* one at random, so it is not passed over for ever
FairLive ==
    \A s \in Sessions :
        /\ WF_vars(SendEcho(s) \/ SendEchoFail(s))
        /\ WF_vars(TimeoutReturn(s))

SpecLive == Init /\ [][NextLive]_vars /\ FairLive

\* the whole system, two sessions, under the same fairness
SpecFair == Spec /\ FairLive

\* ------------------------------------------------- responses of many chunks
\* the packet the loop of sendResponseInChunks writes in turn j (the first
\* turn is 0): seq and i step together, so seq = FirstSeq + j, i = j * MaxChunkSize
ChunkAt(requestID, data, j) ==
    Marshal(TypeEchoReply, ChunkEcho(requestID, FirstSeq + j, data, j * MaxChunkSize))

\* number of turns of the loop for len bytes
Turns(len) == (len + MaxChunkSize - 1) \div MaxChunkSize

\* lengths at which seq reaches the end of 16 bits: the last chunk has
\* seq 65534, the final packet has Seq 65536, a chunk has seq 65536
LongLens ==
    { (TwoTo16 - 2) * MaxChunkSize + 1,
      (TwoTo16 - 1) * MaxChunkSize,
      TwoTo16 * MaxChunkSize + 1 }

\* the turns looked at: the first two and the last two
Samples(len) == {0, 1, Turns(len) - 2, Turns(len) - 1}

\* handleHttpRequest with a response of len bytes, every write succeeding; of
\* the packets written the state keeps those of turns j and k and the final one
LongResponse(h, len, j, k) ==
    /\ hpc[h] = "exec"
    /\ j < k
    /\ LET data == Buffer("resp", h, len)
           kept == << ChunkAt(hreq[h].ID, data, j),
                      ChunkAt(hreq[h].ID, data, k),
                      Marshal(TypeEchoReply, FinalEcho(hreq[h].ID, data)) >>
       IN  /\ hdata' = [hdata EXCEPT ![h] = data]
           /\ written' = [written EXCEPT ![h] = kept]
           /\ s2c' = s2c (+) SeqToBag(kept)
           /\ hpc' = [hpc EXCEPT ![h] = "done"]
    /\ UNCHANGED hreq
    /\ UNCHANGED << clientVars, listenVars, c2s, injected, codecVars, readErr >>

\* Two sessions and the responder, with responses of the lengths of LongLens.
NextLong ==
    \/ \E s \in Sessions, id \in Ids : Register(s, id)
    \/ \E s \in Sessions : SendEcho(s)
    \/ ServerRecv
    \/ \E h \in Sessions, len \in LongLens :
         \E j, k \in Samples(len) : LongResponse(h, len, j, k)

SpecLong == Init /\ [][NextLong]_vars

\* ------------------------------------------- the codec alone, byte by byte
\* Here a payload is a sequence of bytes, and so is an encoding.
CodecBytes == {0, 1, 72, 255}
Payloads == UNION { [1..n -> CodecBytes] : n \in 0..MaxPayload }
CodecMessages ==
    {[Type |-> t, Code |-> 0, Body |-> Echo(i, q, d)] :
        t \in {TypeEcho, TypeEchoReply}, i \in {0, 4660, 65535},
        q \in {0, 1, 65535}, d \in Payloads}

\* binary.BigEndian.PutUint16(b, uint16(v))
PutUint16(v) == << ((v % TwoTo16) \div 256), (v % TwoTo16) % 256 >>

\* Echo.Marshal
EchoMarshal(e) == PutUint16(e.ID) \o PutUint16(e.Seq) \o e.Data

\* the first loop of checksum: the 16-bit words, and the odd last byte as the
\* high half of a word, added into a uint32 (which a message of up to 2^16
\* words cannot overflow)
RECURSIVE SumWords(_, _)
SumWords(b, sum) ==
    IF Len(b) > 1
    THEN SumWords(SubSeq(b, 3, Len(b)), sum + b[1] * 256 + b[2])
    ELSE IF Len(b) > 0 THEN sum + b[1] * 256
    ELSE sum

\* the second loop: the carries folded back in
RECURSIVE FoldCarries(_)
FoldCarries(sum) ==
    IF sum \div TwoTo16 > 0
    THEN FoldCarries((sum \div TwoTo16) + (sum % TwoTo16))
    ELSE sum

\* ^uint16(sum)
checksum(b) == (TwoTo16 - 1) - (FoldCarries(SumWords(b, 0)) % TwoTo16)

\* Message.Marshal that computes the checksum
MessageMarshal(m) ==
    LET body == EchoMarshal(m.Body)
        b == << m.Type % 256, m.Code % 256, 0, 0 >> \o body
    IN  << b[1], b[2] >> \o PutUint16(checksum(b)) \o body

\* Message.Marshal that leaves the checksum bytes zero
MessageMarshalPlain(m) ==
    << m.Type % 256, m.Code % 256, 0, 0 >> \o EchoMarshal(m.Body)

\* msg.Marshal(nil), by the one Message.Marshal and by the other
MarshalMessage(m) ==
    /\ wire = << >>
    /\ message' = m
    /\ wire' = MessageMarshal(m)
    /\ UNCHANGED << clientVars, listenVars, c2s, s2c, serverVars, injected, readErr >>

MarshalMessagePlain(m) ==
    /\ wire = << >>
    /\ message' = m
    /\ wire' = MessageMarshalPlain(m)
    /\ UNCHANGED << clientVars, listenVars, c2s, s2c, serverVars, injected, readErr >>

NextCodec ==
    \/ \E m \in CodecMessages : MarshalMessage(m)
    \/ \E m \in CodecMessages : MarshalMessagePlain(m)

SpecCodec == Init /\ [][NextCodec]_vars


\* ================================================================ claims
\* what the claims speak of
Succeeded(s) == pc[s] = "done" /\ result[s].kind = "ok"
InFlight(s) == pc[s] \in {"reg", "wait"}

\* the echoes the responder (or the simulated one) wrote for the request of s
Bodies(q) == [k \in 1..Len(q) |-> ParseMessage(q[k]).Body]
OwnEchoes(s) == {Bodies(written[s])[k] : k \in 1..Len(written[s])}

\* session s took from its channel every packet written for its request, and
\* no other packet
TookAllOwn(s) == hpc[s] = "done" /\ got[s] = OwnEchoes(s)

\* chunk is a non-empty slice of one buffer and bytes holds all of it
Holds(bytes, chunk) ==
    \E k \in 1..Len(bytes) :
        /\ bytes[k].src = chunk[1].src
        /\ bytes[k].n = chunk[1].n
        /\ bytes[k].lo <= chunk[1].lo
        /\ chunk[1].hi <= bytes[k].hi

\* every byte of bytes is a byte of the response to the request of s
FromResponseOf(s, bytes) ==
    \A k \in 1..Len(bytes) : bytes[k].src = "resp" /\ bytes[k].n = s

\* C1: when all the packets sendResponseInChunks wrote for a request have
\* reached its session, and nothing else has, a successful sendICMPRequest
\* returns exactly the response bytes.
C1_RoundTrip ==
    \A s \in Sessions :
        (Succeeded(s) /\ TookAllOwn(s)) => result[s].data = hdata[s]

\* C2: every packet the responder writes has Seq >= 1.
C2_NoSeqZero ==
    \A h \in Sessions : \A k \in 1..Len(written[h]) : written[h][k].Seq >= 1

\* C3: a successful sendICMPRequest returns the complete response whatever the
\* order of arrival: no data fragment of the response that the initiator
\* accepts (Seq >= 1) is missing from the returned bytes because the final
\* packet arrived before it.
C3_NoPartialData ==
    \A s \in Sessions :
        (Succeeded(s) /\ hpc[s] = "done" /\ got[s] \subseteq OwnEchoes(s)) =>
            \A e \in OwnEchoes(s) :
                (e.Seq >= 1 /\ e.Data # << >>) => Holds(result[s].data, e.Data)

\* C4: in the client test, once the session has taken the two halves (Seq 0
\* and 1) and the empty packet (Seq 2) of the simulated responder, in that
\* order, it has returned both halves joined: the whole response.
C4_TestWorkflow ==
    \A s \in Sessions :
        (pc[s] = "done" /\ TookAllOwn(s)) => result[s] = Ok(hdata[s])

\* C5: every packet a handler writes carries the identifier of its request;
\* when it has written them all, then in any order sort.Slice by Seq leaves
\* them in, the last has no payload and the payloads of the others, joined,
\* are the response bytes.
C5_Chunking ==
    \A h \in Sessions :
        /\ \A k \in 1..Len(written[h]) : written[h][k].ID = hreq[h].ID
        /\ hpc[h] = "done" =>
             \A sorted \in SortedBySeq(Bodies(written[h]), 1..Len(written[h])) :
                 /\ sorted[Len(sorted)].Data = << >>
                 /\ Join(DataOf(SubSeq(sorted, 1, Len(sorted) - 1))) = hdata[h]

C5_Witness ==
    \E h \in Sessions :
        /\ hpc[h] = "done"
        /\ ByteLen(hdata[h]) > MaxChunkSize
        /\ Len(written[h]) >= 3

\* C6: when sendICMPRequest returns, by any path, respChannels has no entry
\* for its requestID, and the channel of a session that has returned is never
\* registered again.
C6_Unregistered ==
    /\ [][\A s \in Sessions :
            (pc[s] # "done" /\ pc'[s] = "done") =>
                MapGet(respChannels', sid[s]) = None]_vars
    /\ [](\A s \in Sessions : pc[s] = "done" => MapGet(respChannels, sid[s]) # s)

C6_Witness ==
    /\ pc[1] = "done" /\ result[1].kind = "timeout"
    /\ pc[2] = "done" /\ result[2].kind = "ok"

\* C7: two sessions in flight at once never hold the same identifier.
C7_DistinctIds ==
    \A s, u \in Sessions :
        (s # u /\ InFlight(s) /\ InFlight(u)) => sid[s] # sid[u]

\* C8: a fragment reaches only the session whose request produced it, and a
\* session that succeeds returns bytes of its own response only.
C8_NoCrossTalk ==
    \A s \in Sessions :
        /\ \A e \in got[s] : FromResponseOf(s, e.Data)
        /\ \A k \in 1..Len(inbox[s]) : FromResponseOf(s, inbox[s][k].Data)
        /\ Succeeded(s) => FromResponseOf(s, result[s].data)

\* C9: the listener is never held up by a full channel: whenever it has a
\* reply to hand over, it can go on.
C9_NeverBlocks == lpc = "send" => Len(inbox[lch]) < ChanCap

\* C10: a session whose request was written and that never took a final
\* packet (Seq # 0, no payload) from its channel can return by its timer
\* at any time, returns nothing but the timeout error, and is then no longer
\* registered.
TookFinal(s) == \E e \in got[s] : e.Seq # 0 /\ e.Data = << >>

C10_Timeout ==
    \A s \in Sessions :
        /\ pc[s] = "wait" => ENABLED TimeoutReturn(s)
        /\ (pc[s] = "done" /\ result[s].kind # "werr" /\ ~TookFinal(s)) =>
              /\ result[s] = TimeoutErr
              /\ MapGet(respChannels, sid[s]) # s

C10_Witness ==
    \E s \in Sessions :
        /\ pc[s] = "done"
        /\ result[s] = TimeoutErr
        /\ \E e \in got[s] : e.Data # << >>
        /\ ~TookFinal(s)

C12_UnmatchedDropped ==
    /\ [][\A w \in BagToSet(s2c) :
            (/\ lpc = "read"
             /\ s2c' = s2c (-) SetToBag({w})
             /\ respChannels[w.ID] = None) =>
                /\ respChannels' = respChannels
                /\ inbox' = inbox
                /\ lpc' = "read"]_vars
    /\ [](lpc = "read" => \A w \in BagToSet(s2c) : ENABLED ListenRead(w))

\* the response to session 1 came after it had timed out and was dropped whole;
\* session 2, under another identifier, took all of its own response
C12_Witness ==
    /\ pc[1] = "done" /\ result[1] = TimeoutErr
    /\ got[1] = {} /\ inbox[1] = << >>
    /\ hpc[1] = "done" /\ Len(written[1]) >= 2
    /\ sid[2] # sid[1]
    /\ Succeeded(2) /\ TookAllOwn(2)
    /\ s2c = EmptyBag /\ lpc = "read"

\* C13: the bytes a successful sendICMPRequest returns are the payloads of the
\* data fragments it took from its channel (Seq >= 1, payload not empty),
\* joined in ascending order of Seq.
DataFrags(s) == {e \in got[s] : e.Seq >= 1 /\ e.Data # << >>}

Ascending(S) ==
    {q \in [1..Cardinality(S) -> S] :
        /\ \A j, k \in 1..Cardinality(S) : j < k => q[j] # q[k] /\ q[j].Seq <= q[k].Seq}

C14_FinalOnePast ==
    \A h \in Sessions :
        (hpc[h] = "done" /\ Len(written[h]) >= 2) =>
            LET n == Len(written[h])
            IN  /\ written[h][n].Data = << >>
                /\ written[h][n].Seq = written[h][n - 1].Seq + 1

\* C15: the packets a handler writes have strictly increasing Seq in the order
\* of the writes; when it has written them all, the last one and only the last
\* one has no payload.
C15_Increasing ==
    \A h \in Sessions :
        /\ \A j, k \in 1..Len(written[h]) :
               j < k => written[h][j].Seq < written[h][k].Seq
        /\ hpc[h] = "done" =>
               \A k \in 1..Len(written[h]) :
                   (written[h][k].Data = << >>) <=> (k = Len(written[h]))

C15_Witness ==
    \E h \in Sessions :
        /\ hpc[h] = "done"
        /\ Len(written[h]) = MaxChunks + 2

\* C16: the k-th data fragment a handler writes carries the bytes of the
\* response from (k - 1) * 1400 on: 1400 of them when it is not the last data
\* fragment, the 1 to 1400 that remain when it is; the only packet without a
\* payload comes after all the data fragments.
NChunks(h) == (ByteLen(hdata[h]) + MaxChunkSize - 1) \div MaxChunkSize

C16_ChunkSizes ==
    \A h \in Sessions : \A k \in 1..Len(written[h]) :
        LET d == ByteLen(written[h][k].Data)
            from == (k - 1) * MaxChunkSize
        IN  IF k <= NChunks(h)
            THEN /\ d \in 1..MaxChunkSize
                 /\ k < NChunks(h) => d = MaxChunkSize
                 /\ k = NChunks(h) => from + d = ByteLen(hdata[h])
                 /\ written[h][k].Data = Slice(hdata[h], from, from + d)
            ELSE k = NChunks(h) + 1 /\ d = 0

C16_Witness ==
    \E h \in Sessions :
        /\ Len(written[h]) >= 3
        /\ ByteLen(written[h][1].Data) = MaxChunkSize
        /\ ByteLen(written[h][Len(written[h]) - 1].Data) = 1
        /\ written[h][Len(written[h])].Data = << >>

\* C17: for a response of no bytes the handler writes one packet, Seq 1 and
\* no payload; a session that takes that packet and nothing else from its
\* channel has returned success with no bytes.
C17_EmptyResponse ==
    \A s \in Sessions :
        (hpc[s] = "done" /\ hdata[s] = << >>) =>
            /\ written[s] = << Marshal(TypeEchoReply, Echo(hreq[s].ID, 1, << >>)) >>
            /\ got[s] = {Echo(sid[s], 1, << >>)} =>
                  pc[s] = "done" /\ result[s] = Ok(<< >>)

C17_Witness ==
    \E s \in Sessions :
        /\ hpc[s] = "done" /\ hdata[s] = << >>
        /\ got[s] = {Echo(sid[s], 1, << >>)}
        /\ Succeeded(s)

\* C18: bytes 2..3 of an encoded message are the checksum of the message with
\* those two bytes zero, and the checksum of the encoded message is zero.
ZeroedChecksum(b) == << b[1], b[2], 0, 0 >> \o SubSeq(b, 5, Len(b))

C18_Checksum ==
    wire # << >> =>
        /\ << wire[3], wire[4] >> = PutUint16(checksum(ZeroedChecksum(wire)))
        /\ checksum(wire) = 0

\* C19: a data fragment of the response to a session, read by the listener
\* after that session has returned, is dropped: no channel changes and the
\* listener is back at its read, also when another session is registered under
\* the same identifier by then.
C19_LateDropped ==
    [][\A s \in Sessions : \A w \in BagToSet(s2c) :
          (/\ pc[s] = "done"
           /\ lpc = "read"
           /\ s2c' = s2c (-) SetToBag({w})
           /\ w.ID = sid[s]
           /\ w.Data # << >>
           /\ FromResponseOf(s, w.Data)) =>
              /\ lpc' = "read"
              /\ inbox' = inbox]_vars

\* C20: from the write of its Echo Request until it returns, a session is the
\* one registered under its identifier, so a reply the listener reads in that
\* time finds its channel.
C20_Registered ==
    \A s \in Sessions : pc[s] = "wait" => MapGet(respChannels, sid[s]) = s

\* C21: no echo that came in a packet of another type than Echo Reply is ever
\* in the listener's hand, on a channel, or taken by a session, also when the
\* packet carried the identifier of a session that was waiting.
FromElsewhere(e) == e.Data # << >> /\ e.Data[1].src = "stray"

C21_OnlyReplies ==
    /\ ~FromElsewhere(lpkt)
    /\ \A s \in Sessions :
          /\ \A k \in 1..Len(inbox[s]) : ~FromElsewhere(inbox[s][k])
          /\ \A e \in got[s] : ~FromElsewhere(e)

\* a packet of the wrong kind came for session 1 while it was waiting and has
\* been read; the session is still waiting and registered
C21_Witness ==
    /\ injected = 1
    /\ s2c = EmptyBag
    /\ lpc = "read"
    /\ pc[1] = "wait"
    /\ MapGet(respChannels, sid[1]) = 1
    /\ got[1] # {}

\* C22: when the responder's loop reads a packet, it starts handleHttpRequest
\* for it if it is an Echo Request, whatever its identifier, and for a packet
\* of any other type it starts nothing and writes nothing.
C22_OnlyRequests ==
    [][\A w \in BagToSet(c2s) :
          (c2s' = c2s (-) SetToBag({w})) =>
              IF w.Type = TypeEcho
              THEN /\ hpc'[RequestOf(ParseMessage(w).Body)] = "exec"
                   /\ hreq'[RequestOf(ParseMessage(w).Body)] = ParseMessage(w).Body
              ELSE UNCHANGED << serverVars, s2c >>]_vars

\* the responder's loop takes another turn: a read that succeeds or one that fails
ServerLoopTurn == ServerRecv \/ \E e \in ReadErrs : ServerReadErr(e)

\* C23: in both read loops a transient read error leaves the loop at its next
\* read, and a non-temporary error (socket closed) ends the loop: the listener
\* has stopped, and the responder's loop takes no further turn.
C23_ReadErrors ==
    /\ readErr.listener = "temporary" => lpc = "read"
    /\ readErr.listener = "closed" => lpc = "stopped"
    /\ readErr.server = "temporary" => ENABLED (\E e \in ReadErrs : ServerReadErr(e))
    /\ readErr.server = "closed" => ~ENABLED ServerLoopTurn

\* the same for the listener alone
C23_ListenerOnly ==
    /\ readErr.listener = "temporary" => lpc = "read"
    /\ readErr.listener = "closed" => lpc = "stopped" /\ ~ENABLED (\E w \in BagToSet(s2c) : ListenRead(w))

\* C24: when the HTTP request of a session cannot be parsed or executed, the
\* responder writes no packet for it, neither data nor the final one, and the
\* session's sendICMPRequest ends in the timeout, never in success.
C24_Abandoned ==
    \A s \in Sessions :
        hpc[s] = "abandoned" =>
            /\ written[s] = << >>
            /\ pc[s] = "done" => result[s] = TimeoutErr

\* the responder's half of it
C24_NothingWritten ==
    \A s \in Sessions : hpc[s] = "abandoned" => written[s] = << >>

\* C25: every call of sendICMPRequest returns, with the response, the timeout
\* or the send error, whatever packets arrive and whatever the listener and
\* the other session do, also when the listener waits on a full channel and
\* when the channel is refilled without end.
C25_Returns ==
    \A s \in Sessions : InFlight(s) ~> pc[s] = "done"

C25_Witness ==
    /\ pc[1] = "done" /\ result[1] = TimeoutErr
    /\ Len(inbox[1]) = ChanCap
    /\ lpc = "send" /\ lch = 1

\* the response of h was marked complete: its final packet was written
MarkedComplete(h) ==
    \E k \in 1..Len(written[h]) : Bodies(written[h])[k].Data = << >>

\* C26: when the write of a packet fails, sendResponseInChunks has written
\* the packets before it and writes nothing after it, neither a later chunk
\* nor the final packet; so a final packet is only ever written after every
\* chunk of the response.
C26_StopsAtFailure ==
    \A h \in Sessions :
        LET all == SendResponseInChunks(hreq[h].ID, hdata[h]) IN
        /\ hpc[h] = "werr" =>
              /\ Len(written[h]) < Len(all)
              /\ written[h] = SubSeq(all, 1, Len(written[h]))
              /\ ~MarkedComplete(h)
        /\ MarkedComplete(h) => written[h] = all

C26_Witness ==
    \E h \in Sessions :
        /\ hpc[h] = "werr"
        /\ Len(written[h]) = 1
        /\ ByteLen(hdata[h]) > 2 * MaxChunkSize

\* C27: no step takes from a session in flight the table entry it holds: the
\* Delete of a returning session removes that session's entry only, and the
\* Set of a session that registers replaces no entry of a session in flight.
C27_OwnEntryOnly ==
    [][\A t \in Sessions :
          (/\ InFlight(t)
           /\ MapGet(respChannels, sid[t]) = t
           /\ pc'[t] = pc[t]) =>
              MapGet(respChannels', sid'[t]) = t]_vars

\* the Delete half of it: a return never removes the entry another session holds
C27_DeleteOnly ==
    [][\A s, t \in Sessions :
          (/\ s # t
           /\ InFlight(t)
           /\ MapGet(respChannels, sid[t]) = t
           /\ pc[s] # "done" /\ pc'[s] = "done") =>
              MapGet(respChannels', sid'[t]) = t]_vars

\* the packet of turn j that ChunkLoop writes is ChunkAt of j
ChunkAtAgrees ==
    \A h \in Sessions : \A k \in 1..Len(written[h]) :
        k <= NChunks(h) => written[h][k] = ChunkAt(hreq[h].ID, hdata[h], k - 1)

\* the Seq fields on the wire keep the order in which the packets were written
C28_OrderKept ==
    \A h \in Sessions : \A j, k \in 1..Len(written[h]) :
        j < k => written[h][j].Seq < written[h][k].Seq

\* C28: on the wire, in the 16 bits of the Seq field, the packets of one
\* response (data fragments and final packet) carry pairwise distinct values
\* in the order in which they were numbered, and none carries 0, whatever the
\* length of the response.
C28_SeqSurvives ==
    \A h \in Sessions :
        /\ \A j, k \in 1..Len(written[h]) :
              j < k => written[h][j].Seq < written[h][k].Seq
        /\ \A k \in 1..Len(written[h]) : written[h][k].Seq # 0

====
